---- MODULE Spec2Model ----
\* The lmkd control-packet codec of include/lmkd.h: the encoders (the
\* lmkd_pack_set_ family and lmkd_pack_start_monitoring) and the decoders
\* (the lmkd_pack_get_ family) acting on one caller-owned LMKD_CTRL_PACKET.
\*
\* A packet slot is modelled as the four bytes the int occupies in memory,
\* in address order, so that htonl/ntohl and the host's byte order are
\* computed rather than assumed.  A 32-bit unsigned value is the tuple of
\* its four bytes, most significant first; a signed int is an integer in
\* -2^31 .. 2^31-1.
EXTENDS Integers, Sequences, FiniteSets

VARIABLES
    hostLE,   \* TRUE on a little-endian host, FALSE on a big-endian one
    packet,   \* the LMKD_CTRL_PACKET: slot -> its four bytes in memory
    enc,      \* the most recent encoder call: its arguments and its result
    dec,      \* the decoder call made on the packet, if any, and its result
    out,      \* the struct that decoder call filled in
    ncalls,   \* encoder calls made on this buffer so far
    budget    \* encoder calls the caller makes on this buffer in all

vars == <<hostLE, packet, enc, dec, out, ncalls, budget>>

(***************************************************************************)
(* Program constants                                                       *)
(***************************************************************************)
LMK_TARGET == 0
LMK_PROCPRIO == 1
LMK_PROCREMOVE == 2
LMK_PROCPURGE == 3
LMK_GETKILLCNT == 4
LMK_SUBSCRIBE == 5
LMK_PROCKILL == 6
LMK_UPDATE_PROPS == 7
LMK_STAT_KILL_OCCURRED == 8
LMK_START_MONITORING == 9
LMK_BOOT_COMPLETED == 10
LMK_PROCS_PRIO == 11

SIZEOF_INT == 4
MAX_TARGETS == 6
CTRL_PACKET_MAX_SIZE == SIZEOF_INT * (MAX_TARGETS * 2 + 1)
PACKET_SLOTS == CTRL_PACKET_MAX_SIZE \div SIZEOF_INT

PROC_TYPE_APP == 0
PROC_TYPE_SERVICE == 1
PROC_TYPE_COUNT == 2

LMK_ASYNC_EVENT_KILL == 0
LMK_ASYNC_EVENT_STAT == 1

LMK_PROCPRIO_FIELD_COUNT == 4
LMK_PROCPRIO_SIZE == LMK_PROCPRIO_FIELD_COUNT * SIZEOF_INT
PROCS_PRIO_MAX_RECORD_COUNT == CTRL_PACKET_MAX_SIZE \div LMK_PROCPRIO_SIZE

(***************************************************************************)
(* Bounds of the model                                                     *)
(***************************************************************************)
MaxEncodes == 1        \* encoder calls on one buffer, specification Spec
MaxSeqEncodes == 2     \* encoder calls on one buffer, specification SpecSeq
OverLimit == 1         \* how far a count may exceed its structural limit
BelowZero == 5         \* field counts start at -BelowZero
MaxFieldCount == 17    \* field counts end here

(***************************************************************************)
(* C arithmetic on 32-bit values                                           *)
(***************************************************************************)
Byte == 0..255

\* int / int: C truncates towards zero.
CDiv(a, b) ==
    IF a >= 0 THEN a \div b ELSE -((-a) \div b)

\* int % int: the remainder has the sign of the dividend.
CRem(a, b) ==
    a - b * CDiv(a, b)

\* Conversion int -> uint32_t (an int argument passed to htonl/ntohl):
\* the value modulo 2^32, as four bytes, most significant first.
IntToU32(x) ==
    LET w == IF x >= 0 THEN x ELSE (x + 2147483647) + 1
        top == (w \div 16777216) + (IF x < 0 THEN 128 ELSE 0)
    IN  <<top, (w \div 65536) % 256, (w \div 256) % 256, w % 256>>

\* Conversion uint32_t -> int (the result of htonl stored into an int
\* slot, the result of ntohl stored into an int, pid_t or enum field).
U32ToInt(u) ==
    ((IF u[1] >= 128 THEN u[1] - 256 ELSE u[1]) * 16777216)
        + (u[2] * 65536) + (u[3] * 256) + u[4]

ByteSwap(u) == <<u[4], u[3], u[2], u[1]>>

\* Mutant: htonl that leaves the host's byte order in place.
htonl_Identity(u) == u

\* <arpa/inet.h> htonl and ntohl on uint32_t.
htonl(u) == IF hostLE THEN ByteSwap(u) ELSE u
ntohl(u) == IF hostLE THEN ByteSwap(u) ELSE u

\* The bytes an int object holds in memory, in address order, and back.
StoreInt(x) == IF hostLE THEN ByteSwap(IntToU32(x)) ELSE IntToU32(x)
LoadInt(m) == U32ToInt(IF hostLE THEN ByteSwap(m) ELSE m)

(***************************************************************************)
(* Packet slots                                                            *)
(***************************************************************************)
Slots == 0..(PACKET_SLOTS - 1)

\* `packet[idx] = htonl(v)`, v already converted to uint32_t: htonl's
\* result is converted to int and stored.  st is the buffer and the set of
\* indices written so far; an index past the array is written past the
\* buffer, into memory that is not part of the packet.
Put(st, idx, v) ==
    [pkt |-> IF idx \in Slots
                THEN [st.pkt EXCEPT ![idx] = StoreInt(U32ToInt(htonl(v)))]
                ELSE st.pkt,
     written |-> st.written \cup {idx}]

\* Stores of indeterminate values at indices that all lie past the array.
PutPast(st, idxs) == [st EXCEPT !.written = @ \cup idxs]

\* `ntohl(packet[idx])`: the int slot is converted to uint32_t and swapped.
Get(pkt, idx) == ntohl(IntToU32(LoadInt(pkt[idx])))

\* Mutant: the encoder clears the whole buffer before it writes.
Fresh_Cleared(pkt) ==
    [pkt |-> [s \in Slots |-> <<0, 0, 0, 0>>], written |-> {}]

Fresh(pkt) == [pkt |-> pkt, written |-> {}]

NoEnc == [op |-> "none", len |-> 0, written |-> {}, p |-> <<>>]
NoDec == [op |-> "none", arg |-> 0, ret |-> 0, reads |-> {}, writes |-> {}]
NoOut == <<>>

\* Mutant: the encoder returns the buffer's capacity, not the bytes used.
Encoded_FullCapacity(op, st, idx, payload) ==
    /\ ncalls < budget
    /\ dec.op = "none"
    /\ packet' = st.pkt
    /\ enc' = [op |-> op, len |-> CTRL_PACKET_MAX_SIZE,
               written |-> st.written, p |-> payload]
    /\ ncalls' = ncalls + 1
    /\ UNCHANGED <<hostLE, budget, dec, out>>

\* What every encoder call leaves behind: the buffer, the returned length
\* (idx * sizeof(int)), the record of the call.  The caller makes at most
\* budget encoder calls on the buffer and none once the packet has been
\* handed over and decoded.
Encoded(op, st, idx, payload) ==
    /\ ncalls < budget
    /\ dec.op = "none"
    /\ packet' = st.pkt
    /\ enc' = [op |-> op, len |-> idx * SIZEOF_INT, written |-> st.written,
               p |-> payload]
    /\ ncalls' = ncalls + 1
    /\ UNCHANGED <<hostLE, budget, dec, out>>

\* What every decoder call leaves behind: the struct it filled in and the
\* record of the call; the packet is only read.  A payload is decoded once
\* and then consumed.
Decoded(op, arg, ret, reads, writes, result) ==
    /\ dec.op = "none"
    /\ dec' = [op |-> op, arg |-> arg, ret |-> ret, reads |-> reads,
               writes |-> writes]
    /\ out' = result
    /\ UNCHANGED <<hostLE, budget, packet, enc, ncalls>>

(***************************************************************************)
(* Encoders                                                                *)
(***************************************************************************)
\* The while loop of lmkd_pack_set_target: targets is the array from the
\* current pointer on (targets++ drops its head).
RECURSIVE SetTargetLoop(_, _, _, _)
SetTargetLoop(st, idx, targets, target_cnt) ==
    IF target_cnt = 0
    THEN <<st, idx>>
    ELSE LET s1 == Put(st, idx, IntToU32(Head(targets).minfree))
             s2 == Put(s1, idx + 1, IntToU32(Head(targets).oom_adj_score))
         IN  SetTargetLoop(s2, idx + 2, Tail(targets), target_cnt - 1)

lmkd_pack_set_target(targets, target_cnt) ==
    LET s0 == Put(Fresh(packet), 0, IntToU32(LMK_TARGET))
        r == SetTargetLoop(s0, 1, targets, target_cnt)
    IN  Encoded("set_target", r[1], r[2],
                [targets |-> targets, target_cnt |-> target_cnt])

lmkd_pack_set_procprio(params) ==
    LET s0 == Put(Fresh(packet), 0, IntToU32(LMK_PROCPRIO))
        s1 == Put(s0, 1, IntToU32(params.pid))
        s2 == Put(s1, 2, params.uid)
        s3 == Put(s2, 3, IntToU32(params.oomadj))
        s4 == Put(s3, 4, IntToU32(params.ptype))
    IN  Encoded("set_procprio", s4, 5, params)

lmkd_pack_set_procremove(params) ==
    LET s0 == Put(Fresh(packet), 0, IntToU32(LMK_PROCREMOVE))
        s1 == Put(s0, 1, IntToU32(params.pid))
    IN  Encoded("set_procremove", s1, 2, params)

lmkd_pack_set_procpurge ==
    LET s0 == Put(Fresh(packet), 0, IntToU32(LMK_PROCPURGE))
    IN  Encoded("set_procpurge", s0, 1, <<>>)

lmkd_pack_set_getkillcnt(params) ==
    LET s0 == Put(Fresh(packet), 0, IntToU32(LMK_GETKILLCNT))
        s1 == Put(s0, 1, IntToU32(params.min_oomadj))
        s2 == Put(s1, 2, IntToU32(params.max_oomadj))
    IN  Encoded("set_getkillcnt", s2, 3, params)

lmkd_pack_set_getkillcnt_repl(kill_cnt) ==
    LET s0 == Put(Fresh(packet), 0, IntToU32(LMK_GETKILLCNT))
        s1 == Put(s0, 1, IntToU32(kill_cnt))
    IN  Encoded("set_getkillcnt_repl", s1, 2, [kill_cnt |-> kill_cnt])

lmkd_pack_set_subscribe(evt_type) ==
    LET s0 == Put(Fresh(packet), 0, IntToU32(LMK_SUBSCRIBE))
        s1 == Put(s0, 1, IntToU32(evt_type))
    IN  Encoded("set_subscribe", s1, 2, [evt_type |-> evt_type])

lmkd_pack_set_prockills(pid, uid) ==
    LET s0 == Put(Fresh(packet), 0, IntToU32(LMK_PROCKILL))
        s1 == Put(s0, 1, IntToU32(pid))
        s2 == Put(s1, 2, uid)
    IN  Encoded("set_prockills", s2, 3, [pid |-> pid, uid |-> uid])

lmkd_pack_set_update_props ==
    LET s0 == Put(Fresh(packet), 0, IntToU32(LMK_UPDATE_PROPS))
    IN  Encoded("set_update_props", s0, 1, <<>>)

lmkd_pack_start_monitoring ==
    LET s0 == Put(Fresh(packet), 0, IntToU32(LMK_START_MONITORING))
    IN  Encoded("start_monitoring", s0, 1, <<>>)

lmkd_pack_set_update_props_repl(result) ==
    LET s0 == Put(Fresh(packet), 0, IntToU32(LMK_UPDATE_PROPS))
        s1 == Put(s0, 1, IntToU32(result))
    IN  Encoded("set_update_props_repl", s1, 2, [result |-> result])

lmkd_pack_set_boot_completed_notif ==
    LET s0 == Put(Fresh(packet), 0, IntToU32(LMK_BOOT_COMPLETED))
    IN  Encoded("set_boot_completed_notif", s0, 1, <<>>)

lmkd_pack_set_boot_completed_notif_repl(result) ==
    LET s0 == Put(Fresh(packet), 0, IntToU32(LMK_BOOT_COMPLETED))
        s1 == Put(s0, 1, IntToU32(result))
    IN  Encoded("set_boot_completed_notif_repl", s1, 2, [result |-> result])

\* The for loop of lmkd_pack_set_procs_prio.  params->procs has
\* PROCS_PRIO_MAX_RECORD_COUNT records: a record past them is read from
\* beyond the struct and, its slots lying past the packet too, stored
\* beyond the buffer, so its indeterminate value reaches no modelled slot.
RECURSIVE SetProcsPrioLoop(_, _, _, _, _)
SetProcsPrioLoop(st, packetIdx, procs, i, procs_count) ==
    IF ~(i < procs_count)
    THEN <<st, packetIdx>>
    ELSE LET s4 == IF i < PROCS_PRIO_MAX_RECORD_COUNT
                   THEN LET r == procs[i]
                            s1 == Put(st, packetIdx, IntToU32(r.pid))
                            s2 == Put(s1, packetIdx + 1, r.uid)
                            s3 == Put(s2, packetIdx + 2, IntToU32(r.oomadj))
                        IN  Put(s3, packetIdx + 3, IntToU32(r.ptype))
                   ELSE PutPast(st, packetIdx .. (packetIdx + 3))
         IN  SetProcsPrioLoop(s4, packetIdx + 4, procs, i + 1, procs_count)

\* Mutant: the returned length leaves the command slot out.
lmkd_pack_set_procs_prio_PayloadLength(params, procs_count) ==
    LET s0 == Put(Fresh(packet), 0, IntToU32(LMK_PROCS_PRIO))
        r == SetProcsPrioLoop(s0, 1, params.procs, 0, procs_count)
    IN  /\ ncalls < budget
        /\ dec.op = "none"
        /\ packet' = r[1].pkt
        /\ enc' = [op |-> "set_procs_prio",
                   len |-> (r[2] - 1) * SIZEOF_INT,
                   written |-> r[1].written,
                   p |-> [procs |-> params.procs,
                          procs_count |-> procs_count]]
        /\ ncalls' = ncalls + 1
        /\ UNCHANGED <<hostLE, budget, dec, out>>

lmkd_pack_set_procs_prio(params, procs_count) ==
    LET s0 == Put(Fresh(packet), 0, IntToU32(LMK_PROCS_PRIO))
        r == SetProcsPrioLoop(s0, 1, params.procs, 0, procs_count)
    IN  Encoded("set_procs_prio", r[1], r[2],
                [procs |-> params.procs, procs_count |-> procs_count])

(***************************************************************************)
(* Decoders                                                                *)
(***************************************************************************)
\* Mutant: the command is read without ntohl.
lmkd_pack_get_cmd_NoSwap ==
    Decoded("get_cmd", 0, LoadInt(packet[0]), {0}, {}, NoOut)

lmkd_pack_get_cmd ==
    Decoded("get_cmd", 0, U32ToInt(Get(packet, 0)), {0}, {}, NoOut)

\* Mutant: the pair is taken one slot early.
lmkd_pack_get_target_OffByOne(target_idx) ==
    Decoded("get_target", target_idx, 0,
            {target_idx * 2, target_idx * 2 + 1}, {},
            [minfree |-> U32ToInt(Get(packet, target_idx * 2)),
             oom_adj_score |-> U32ToInt(Get(packet, target_idx * 2 + 1))])

lmkd_pack_get_target(target_idx) ==
    Decoded("get_target", target_idx, 0,
            {target_idx * 2 + 1, target_idx * 2 + 2}, {},
            [minfree |-> U32ToInt(Get(packet, target_idx * 2 + 1)),
             oom_adj_score |-> U32ToInt(Get(packet, target_idx * 2 + 2))])

\* Mutant: the 4th field is read whatever the field count.
lmkd_pack_get_procprio_AlwaysReadsType(field_count) ==
    Decoded("get_procprio", field_count, 0, {1, 2, 3, 4}, {},
            [pid |-> U32ToInt(Get(packet, 1)),
             uid |-> Get(packet, 2),
             oomadj |-> U32ToInt(Get(packet, 3)),
             ptype |-> U32ToInt(Get(packet, 4))])

lmkd_pack_get_procprio(field_count) ==
    Decoded("get_procprio", field_count, 0,
            {1, 2, 3} \cup (IF field_count > 3 THEN {4} ELSE {}), {},
            [pid |-> U32ToInt(Get(packet, 1)),
             uid |-> Get(packet, 2),
             oomadj |-> U32ToInt(Get(packet, 3)),
             ptype |-> IF field_count > 3 THEN U32ToInt(Get(packet, 4))
                                          ELSE PROC_TYPE_APP])

lmkd_pack_get_procremove ==
    Decoded("get_procremove", 0, 0, {1}, {},
            [pid |-> U32ToInt(Get(packet, 1))])

lmkd_pack_get_getkillcnt ==
    Decoded("get_getkillcnt", 0, 0, {1, 2}, {},
            [min_oomadj |-> U32ToInt(Get(packet, 1)),
             max_oomadj |-> U32ToInt(Get(packet, 2))])

lmkd_pack_get_subscribe ==
    Decoded("get_subscribe", 0, 0, {1}, {},
            [evt_type |-> U32ToInt(Get(packet, 1))])

lmkd_pack_get_update_props_repl ==
    Decoded("get_update_props_repl", 0, 0, {1}, {},
            [result |-> U32ToInt(Get(packet, 1))])

lmkd_pack_get_boot_completed_notif_repl ==
    Decoded("get_boot_completed_notif_repl", 0, 0, {1}, {},
            [result |-> U32ToInt(Get(packet, 1))])

\* Mutant: the test without the remainder.
InvalidFieldCount_NoRemainder(field_count) ==
    field_count < LMK_PROCPRIO_FIELD_COUNT

\* The test that makes lmkd_pack_get_procs_prio return -1.
InvalidFieldCount(field_count) ==
    \/ field_count < LMK_PROCPRIO_FIELD_COUNT
    \/ CRem(field_count, LMK_PROCPRIO_FIELD_COUNT) # 0

\* Mutant: the loop runs once more than procs_count (<= for <).
RECURSIVE GetProcsPrioLoop_Inclusive(_, _, _, _, _)
GetProcsPrioLoop_Inclusive(pkt, d, packetIdx, procs_idx, procs_count) ==
    IF ~(procs_idx <= procs_count)
    THEN d
    ELSE LET rd == packetIdx .. (packetIdx + 3)
             d1 == IF procs_idx < PROCS_PRIO_MAX_RECORD_COUNT
                   THEN [d EXCEPT !.procs[procs_idx] =
                            [pid |-> U32ToInt(Get(pkt, packetIdx)),
                             uid |-> Get(pkt, packetIdx + 1),
                             oomadj |-> U32ToInt(Get(pkt, packetIdx + 2)),
                             ptype |-> U32ToInt(Get(pkt, packetIdx + 3))]]
                   ELSE d
             d2 == [d1 EXCEPT !.reads = @ \cup rd,
                              !.writes = @ \cup {procs_idx}]
         IN  GetProcsPrioLoop_Inclusive(pkt, d2, packetIdx + 4,
                                        procs_idx + 1, procs_count)

\* The for loop of lmkd_pack_get_procs_prio on a packet of PACKET_SLOTS
\* slots and a struct of PROCS_PRIO_MAX_RECORD_COUNT records.  d holds the
\* struct, the packet indices read and the procs indices written.  A
\* record past the struct takes its four values from past the packet
\* (indeterminate) and puts them past the struct: the accesses are
\* recorded, the values reach nothing that is modelled.
RECURSIVE GetProcsPrioLoop(_, _, _, _, _)
GetProcsPrioLoop(pkt, d, packetIdx, procs_idx, procs_count) ==
    IF ~(procs_idx < procs_count)
    THEN d
    ELSE LET rd == packetIdx .. (packetIdx + 3)
             d1 == IF procs_idx < PROCS_PRIO_MAX_RECORD_COUNT
                   THEN [d EXCEPT !.procs[procs_idx] =
                            [pid |-> U32ToInt(Get(pkt, packetIdx)),
                             uid |-> Get(pkt, packetIdx + 1),
                             oomadj |-> U32ToInt(Get(pkt, packetIdx + 2)),
                             ptype |-> U32ToInt(Get(pkt, packetIdx + 3))]]
                   ELSE d
             d2 == [d1 EXCEPT !.reads = @ \cup rd,
                              !.writes = @ \cup {procs_idx}]
         IN  GetProcsPrioLoop(pkt, d2, packetIdx + 4, procs_idx + 1,
                              procs_count)

\* Mutant: the records are read from slot 0, the command slot, on.
lmkd_pack_get_procs_prio_FromSlot0(params, field_count) ==
    IF InvalidFieldCount(field_count)
    THEN Decoded("get_procs_prio", field_count, -1, {}, {}, params.procs)
    ELSE LET procs_count == CDiv(field_count, LMK_PROCPRIO_FIELD_COUNT)
             d == GetProcsPrioLoop(packet,
                      [procs |-> params.procs, reads |-> {}, writes |-> {}],
                      0, 0, procs_count)
         IN  Decoded("get_procs_prio", field_count, procs_count, d.reads,
                     d.writes, d.procs)

lmkd_pack_get_procs_prio(params, field_count) ==
    IF InvalidFieldCount(field_count)
    THEN Decoded("get_procs_prio", field_count, -1, {}, {}, params.procs)
    ELSE LET procs_count == CDiv(field_count, LMK_PROCPRIO_FIELD_COUNT)
             d == GetProcsPrioLoop(packet,
                      [procs |-> params.procs, reads |-> {}, writes |-> {}],
                      1, 0, procs_count)
         IN  Decoded("get_procs_prio", field_count, procs_count, d.reads,
                     d.writes, d.procs)

(***************************************************************************)
(* Inputs                                                                  *)
(***************************************************************************)
\* 0x01020304 and a negative value: every byte of the word differs.
IntVals == {-1000, 16909060}

UidVals == {<<0, 0, 39, 16>>, <<255, 255, 255, 254>>}

ProcA == [pid |-> 1234, uid |-> <<0, 0, 39, 16>>, oomadj |-> 900,
          ptype |-> PROC_TYPE_SERVICE]
ProcB == [pid |-> 1, uid |-> <<255, 255, 255, 254>>, oomadj |-> -1000,
          ptype |-> PROC_TYPE_APP]
ProcC == [pid |-> 2147483647, uid |-> <<128, 0, 0, 2>>, oomadj |-> 1,
          ptype |-> PROC_TYPE_COUNT]
ProcPrioVals == {ProcA, ProcB, ProcC}

\* What a struct holds before a decoder fills it in.
JunkProc == [pid |-> -1431655766, uid |-> <<170, 170, 170, 170>>,
             oomadj |-> -1431655766, ptype |-> -1431655766]
JunkProcs == [procs |-> [i \in 0..(PROCS_PRIO_MAX_RECORD_COUNT - 1) |-> JunkProc]]

ProcsOf(a, b, c) ==
    [procs |-> [i \in 0..(PROCS_PRIO_MAX_RECORD_COUNT - 1) |->
                   IF i = 0 THEN a ELSE IF i = 1 THEN b ELSE c]]
ProcsVals == {ProcsOf(ProcA, ProcB, ProcC), ProcsOf(ProcC, ProcA, ProcB),
              ProcsOf(ProcB, ProcB, ProcA)}
ProcsCounts == (-1)..(PROCS_PRIO_MAX_RECORD_COUNT + OverLimit)

\* The target array of length n whose entries all differ, built on seed.
TargetsOf(seed, n) ==
    [i \in 1..n |-> [minfree |-> seed + 4608 * i,
                     oom_adj_score |-> 1000 - (400 * i) - seed]]
TargetSeeds == {0, 2147400000}
TargetCounts == 0..(MAX_TARGETS + OverLimit)

FieldCounts == (-BelowZero)..MaxFieldCount
ProcPrioFieldCounts == {3, 4}

\* What the buffer holds before the first encoder call.
JunkWords == {<<0, 0, 0, 0>>, <<222, 173, 190, 239>>}

(***************************************************************************)
(* Specifications                                                          *)
(***************************************************************************)
InitBuffer(calls) ==
    /\ hostLE \in BOOLEAN
    /\ \E w \in JunkWords : packet = [s \in Slots |-> w]
    /\ enc = NoEnc
    /\ dec = NoDec
    /\ out = NoOut
    /\ ncalls = 0
    /\ budget = calls

\* One packet: a caller encodes into a buffer, a peer decodes it.
Init == InitBuffer(MaxEncodes)

Next ==
    \/ \E seed \in TargetSeeds, n \in TargetCounts :
           lmkd_pack_set_target(TargetsOf(seed, n), n)
    \/ \E r \in ProcPrioVals : lmkd_pack_set_procprio(r)
    \/ \E pid \in IntVals : lmkd_pack_set_procremove([pid |-> pid])
    \/ lmkd_pack_set_procpurge
    \/ \E lo \in IntVals, hi \in IntVals :
           lmkd_pack_set_getkillcnt([min_oomadj |-> lo, max_oomadj |-> hi])
    \/ \E v \in IntVals : lmkd_pack_set_getkillcnt_repl(v)
    \/ \E e \in {LMK_ASYNC_EVENT_KILL, LMK_ASYNC_EVENT_STAT} :
           lmkd_pack_set_subscribe(e)
    \/ \E pid \in IntVals, uid \in UidVals : lmkd_pack_set_prockills(pid, uid)
    \/ lmkd_pack_set_update_props
    \/ lmkd_pack_start_monitoring
    \/ \E v \in IntVals : lmkd_pack_set_update_props_repl(v)
    \/ lmkd_pack_set_boot_completed_notif
    \/ \E v \in IntVals : lmkd_pack_set_boot_completed_notif_repl(v)
    \/ \E ps \in ProcsVals, n \in ProcsCounts : lmkd_pack_set_procs_prio(ps, n)
    \/ lmkd_pack_get_cmd
    \/ \E i \in 0..(MAX_TARGETS - 1) : lmkd_pack_get_target(i)
    \/ \E fc \in ProcPrioFieldCounts : lmkd_pack_get_procprio(fc)
    \/ lmkd_pack_get_procremove
    \/ lmkd_pack_get_getkillcnt
    \/ lmkd_pack_get_subscribe
    \/ lmkd_pack_get_update_props_repl
    \/ lmkd_pack_get_boot_completed_notif_repl
    \/ \E fc \in FieldCounts : lmkd_pack_get_procs_prio(JunkProcs, fc)

Spec == Init /\ [][Next]_vars

\* A buffer reused for several packets in a row, each encoder called on
\* what the earlier calls left in it.
InitSeq == InitBuffer(MaxSeqEncodes)

SeqFieldCounts == {3, 4, 8, 12}

NextSeq ==
    \/ \E n \in TargetCounts : lmkd_pack_set_target(TargetsOf(0, n), n)
    \/ lmkd_pack_set_procprio(ProcB)
    \/ lmkd_pack_set_procremove([pid |-> 16909060])
    \/ lmkd_pack_set_procpurge
    \/ lmkd_pack_set_getkillcnt([min_oomadj |-> -1000, max_oomadj |-> 16909060])
    \/ lmkd_pack_set_getkillcnt_repl(16909060)
    \/ lmkd_pack_set_subscribe(LMK_ASYNC_EVENT_STAT)
    \/ lmkd_pack_set_prockills(16909060, <<255, 255, 255, 254>>)
    \/ lmkd_pack_set_update_props
    \/ lmkd_pack_start_monitoring
    \/ lmkd_pack_set_update_props_repl(-1000)
    \/ lmkd_pack_set_boot_completed_notif
    \/ lmkd_pack_set_boot_completed_notif_repl(-1000)
    \/ \E n \in ProcsCounts :
           lmkd_pack_set_procs_prio(ProcsOf(ProcA, ProcB, ProcC), n)
    \/ lmkd_pack_get_cmd
    \/ \E i \in {0, MAX_TARGETS - 1} : lmkd_pack_get_target(i)
    \/ \E fc \in ProcPrioFieldCounts : lmkd_pack_get_procprio(fc)
    \/ lmkd_pack_get_procremove
    \/ lmkd_pack_get_getkillcnt
    \/ lmkd_pack_get_subscribe
    \/ lmkd_pack_get_update_props_repl
    \/ lmkd_pack_get_boot_completed_notif_repl
    \/ \E fc \in SeqFieldCounts : lmkd_pack_get_procs_prio(JunkProcs, fc)

SpecSeq == InitSeq /\ [][NextSeq]_vars

\* One word through the wire: 32-bit values of every sign and byte
\* pattern, sent as a GETKILLCNT range and read back.
WideVals == {0, 1, -1, 255, 256, -256, 65536, 16909060, -16909061,
             1234, -1000, 2147483647, -2147483647 - 1, 2130706432,
             -2130706433, 305419896}

InitBytes == InitBuffer(MaxEncodes)

NextBytes ==
    \/ \E lo \in WideVals, hi \in WideVals :
           lmkd_pack_set_getkillcnt([min_oomadj |-> lo, max_oomadj |-> hi])
    \/ lmkd_pack_get_getkillcnt

SpecBytes == InitBytes /\ [][NextBytes]_vars

(***************************************************************************)
(* Properties                                                              *)
(***************************************************************************)
BatchEncoded == enc.op = "set_procs_prio"
BatchDecoded == dec.op = "get_procs_prio"

\* The first n records of the decoded struct are the encoded ones.
SameRecords(n) ==
    \A i \in 0..(n - 1) :
        /\ out[i].pid = enc.p.procs[i].pid
        /\ out[i].uid = enc.p.procs[i].uid
        /\ out[i].oomadj = enc.p.procs[i].oomadj
        /\ out[i].ptype = enc.p.procs[i].ptype

\* C1: a batch of n records, 1 <= n <= 3, encoded by
\* lmkd_pack_set_procs_prio and decoded from the same buffer by
\* lmkd_pack_get_procs_prio with field_count = 4 * n, comes back whole: the
\* decoder returns n and every record equals the encoded one in pid, uid,
\* oomadj and ptype; the 2-record packet is 36 bytes long.
C1_ProcsPrioRoundTrip ==
    (/\ BatchEncoded
     /\ enc.p.procs_count \in 1..3
     /\ BatchDecoded
     /\ dec.arg = 4 * enc.p.procs_count)
    => /\ dec.ret = enc.p.procs_count
       /\ SameRecords(enc.p.procs_count)
       /\ (enc.p.procs_count = 2 => enc.len = 36 /\ dec.arg = 8)

C1_Witness ==
    /\ BatchEncoded
    /\ enc.p.procs_count = 2
    /\ enc.len = 36
    /\ BatchDecoded
    /\ dec.arg = 8
    /\ dec.ret = 2
    /\ out[1].uid = <<0, 0, 39, 16>>
    /\ hostLE

MultipleOfFour(n) ==
    LET a == IF n < 0 THEN -n ELSE n
    IN  \E k \in (-a)..a : n = 4 * k

\* C2: for every integer field_count, negative, zero or positive,
\* lmkd_pack_get_procs_prio returns -1 exactly when field_count < 4 or
\* field_count is not a multiple of 4, and otherwise returns
\* field_count / 4; field counts 0, 1, 2, 3, 5, 6, 7 fail and 4, 8, 12
\* give 1, 2, 3 records.
C2_FieldCountValidation ==
    BatchDecoded =>
        LET fc == dec.arg
            bad == fc < 4 \/ ~MultipleOfFour(fc)
        IN  /\ (dec.ret = -1) <=> bad
            /\ ~bad => 4 * dec.ret = fc
            /\ fc \in {0, 1, 2, 3, 5, 6, 7} => dec.ret = -1
            /\ fc = 4 => dec.ret = 1
            /\ fc = 8 => dec.ret = 2
            /\ fc = 12 => dec.ret = 3

C2_Witness ==
    /\ BatchDecoded
    /\ dec.arg = -4
    /\ dec.ret = -1

WithinLimits ==
    /\ enc.op = "set_target" => enc.p.target_cnt <= 6
    /\ enc.op = "set_procs_prio" => enc.p.procs_count <= 3

\* C3: every encoder called within the structural limits (at most 6
\* targets, at most 3 batch records) returns 4 times the number of slots
\* it wrote, never more than CTRL_PACKET_MAX_SIZE = 52, and writes no slot
\* beyond index 12; exactly 6 targets and exactly 3 batch records give 52.
C3_EncodedSize ==
    (enc.op # "none" /\ WithinLimits)
    => /\ enc.len = 4 * Cardinality(enc.written)
       /\ CTRL_PACKET_MAX_SIZE = 52
       /\ enc.len <= CTRL_PACKET_MAX_SIZE
       /\ \A s \in enc.written : s >= 0 /\ s <= 12
       /\ (enc.op = "set_target" /\ enc.p.target_cnt = 6) => enc.len = 52
       /\ (BatchEncoded /\ enc.p.procs_count = 3) => enc.len = 52

C3_Witness ==
    /\ enc.op = "set_target"
    /\ enc.p.target_cnt = 6
    /\ enc.len = 52
    /\ enc.written = 0..12

\* C4: a ProcPrio payload encoded by lmkd_pack_set_procprio and decoded by
\* lmkd_pack_get_procprio comes back with the same pid, uid and oomadj;
\* ptype comes back as encoded when field_count is 4 and as PROC_TYPE_APP
\* when field_count is 3, whatever slot 4 holds.
C4_ProcPrioRoundTrip ==
    (enc.op = "set_procprio" /\ dec.op = "get_procprio")
    => /\ out.pid = enc.p.pid
       /\ out.uid = enc.p.uid
       /\ out.oomadj = enc.p.oomadj
       /\ dec.arg = 4 => out.ptype = enc.p.ptype
       /\ dec.arg = 3 => out.ptype = PROC_TYPE_APP

C4_Witness ==
    /\ enc.op = "set_procprio"
    /\ enc.p.ptype = PROC_TYPE_SERVICE
    /\ packet[4] = <<0, 0, 0, 1>>
    /\ dec.op = "get_procprio"
    /\ dec.arg = 3
    /\ out.ptype = PROC_TYPE_APP
    /\ out.pid = 1234

\* C5 as stated: with the field count taken as received_bytes / 4, where
\* received_bytes is the length lmkd_pack_set_procs_prio returned for n
\* records, 1 <= n <= 3, lmkd_pack_get_procs_prio returns n and the
\* encoded records.
C5_FieldCountIsBytesOverFour ==
    (/\ BatchEncoded
     /\ enc.p.procs_count \in 1..3
     /\ BatchDecoded
     /\ dec.arg = enc.len \div 4)
    => /\ dec.ret = enc.p.procs_count
       /\ SameRecords(enc.p.procs_count)

\* C5 as amended: with the field count taken as received_bytes / 4 - 1
\* (the command slot is not a field), lmkd_pack_get_procs_prio returns n
\* and the encoded records.
C5_FieldCountExcludesCommand ==
    (/\ BatchEncoded
     /\ enc.p.procs_count \in 1..3
     /\ BatchDecoded
     /\ dec.arg = (enc.len \div 4) - 1)
    => /\ dec.ret = enc.p.procs_count
       /\ dec.ret > 0
       /\ SameRecords(enc.p.procs_count)

C5_Witness ==
    /\ BatchEncoded
    /\ enc.p.procs_count = 3
    /\ enc.len = 52
    /\ BatchDecoded
    /\ dec.arg = 12
    /\ dec.ret = 3
    /\ out[2].pid = 2147483647

\* The discriminant each encoder is to leave in slot 0.
CommandOf(op) ==
    CASE op = "set_target" -> LMK_TARGET
      [] op = "set_procprio" -> LMK_PROCPRIO
      [] op = "set_procremove" -> LMK_PROCREMOVE
      [] op = "set_procpurge" -> LMK_PROCPURGE
      [] op \in {"set_getkillcnt", "set_getkillcnt_repl"} -> LMK_GETKILLCNT
      [] op = "set_subscribe" -> LMK_SUBSCRIBE
      [] op = "set_prockills" -> LMK_PROCKILL
      [] op \in {"set_update_props", "set_update_props_repl"} -> LMK_UPDATE_PROPS
      [] op = "start_monitoring" -> LMK_START_MONITORING
      [] op \in {"set_boot_completed_notif", "set_boot_completed_notif_repl"}
            -> LMK_BOOT_COMPLETED
      [] op = "set_procs_prio" -> LMK_PROCS_PRIO

\* C6: after any sequence of encoder calls on one buffer, lmkd_pack_get_cmd
\* returns the command of the most recent encoder call, one of the 12
\* lmk_cmd values 0..11; a reply encoder leaves its request's command.
C6_CommandOfLastEncoder ==
    (enc.op # "none" /\ dec.op = "get_cmd")
    => /\ dec.ret = CommandOf(enc.op)
       /\ dec.ret \in 0..11
       /\ packet[0] = <<0, 0, 0, dec.ret>>

C6_Witness ==
    /\ ncalls = 2
    /\ enc.op = "set_boot_completed_notif_repl"
    /\ dec.op = "get_cmd"
    /\ dec.ret = 10
    /\ ~hostLE

\* C7: LMK_TARGET with n <= 6 targets and the fixed-shape commands that
\* have an encoder and a decoder (ProcRemove, GetKillCnt request,
\* Subscribe, UpdateProps reply, BootCompleted reply) decode to what was
\* encoded: lmkd_pack_get_target(packet, i) is targets[i] for i < n, and
\* each fixed-shape decoder returns every field as given to its encoder.
C7_RoundTrip ==
    /\ (/\ enc.op = "set_target"
        /\ enc.p.target_cnt <= 6
        /\ dec.op = "get_target"
        /\ dec.arg < enc.p.target_cnt)
       => /\ out.minfree = enc.p.targets[dec.arg + 1].minfree
          /\ out.oom_adj_score = enc.p.targets[dec.arg + 1].oom_adj_score
    /\ (enc.op = "set_procremove" /\ dec.op = "get_procremove")
       => out.pid = enc.p.pid
    /\ (enc.op = "set_getkillcnt" /\ dec.op = "get_getkillcnt")
       => /\ out.min_oomadj = enc.p.min_oomadj
          /\ out.max_oomadj = enc.p.max_oomadj
    /\ (enc.op = "set_subscribe" /\ dec.op = "get_subscribe")
       => out.evt_type = enc.p.evt_type
    /\ (enc.op = "set_update_props_repl" /\ dec.op = "get_update_props_repl")
       => out.result = enc.p.result
    /\ (/\ enc.op = "set_boot_completed_notif_repl"
        /\ dec.op = "get_boot_completed_notif_repl")
       => out.result = enc.p.result

C7_Witness ==
    /\ enc.op = "set_target"
    /\ enc.p.target_cnt = 6
    /\ dec.op = "get_target"
    /\ dec.arg = 5
    /\ out.oom_adj_score = -1400
    /\ hostLE

\* The signed 32-bit value whose big-endian representation is b.
BigEndianValue(b) ==
    LET hi == IF b[1] > 127 THEN b[1] - 256 ELSE b[1]
    IN  ((((hi * 256) + b[2]) * 256 + b[3]) * 256) + b[4]

\* C8: on either host byte order, the four bytes an encoder stores in a
\* slot for a signed 32-bit value v are v's big-endian representation, most
\* significant byte first, and the decoder's ntohl of the slot gives v.
C8_BigEndianOnTheWire ==
    /\ enc.op = "set_getkillcnt"
       => /\ packet[0] = <<0, 0, 0, 4>>
          /\ \A i \in 1..4 : packet[1][i] \in Byte /\ packet[2][i] \in Byte
          /\ BigEndianValue(packet[1]) = enc.p.min_oomadj
          /\ BigEndianValue(packet[2]) = enc.p.max_oomadj
    /\ (enc.op = "set_getkillcnt" /\ dec.op = "get_getkillcnt")
       => /\ out.min_oomadj = enc.p.min_oomadj
          /\ out.max_oomadj = enc.p.max_oomadj

C8_Witness ==
    /\ hostLE
    /\ enc.op = "set_getkillcnt"
    /\ enc.p.min_oomadj = -16909061
    /\ packet[1] = <<254, 253, 252, 251>>
    /\ enc.p.max_oomadj = 305419896
    /\ packet[2] = <<18, 52, 86, 120>>
    /\ dec.op = "get_getkillcnt"
    /\ out.min_oomadj = -16909061

\* C9 as stated: whenever lmkd_pack_get_procs_prio does not return -1, on
\* a packet of 13 slots and a struct of 3 records, it reads only slots
\* 1..12, writes only procs[0..2], and returns at most 3.
C9_DecoderStaysInBounds ==
    (BatchDecoded /\ dec.ret # -1)
    => /\ dec.reads \subseteq 1..12
       /\ dec.writes \subseteq 0..2
       /\ dec.ret <= 3

\* C9 as amended: for every field_count of at most 12, the payload slots
\* of a 13-slot packet, for which lmkd_pack_get_procs_prio does not return
\* -1, it reads only slots 1..12, writes only procs[0..2], and returns at
\* most 3.
C9_DecoderStaysInBoundsUpTo12 ==
    (BatchDecoded /\ dec.ret # -1 /\ dec.arg <= 12)
    => /\ dec.reads \subseteq 1..12
       /\ dec.writes \subseteq 0..2
       /\ dec.ret <= 3

C9_Witness ==
    /\ BatchDecoded
    /\ dec.arg = 12
    /\ dec.ret = 3
    /\ dec.reads = 1..12
    /\ dec.writes = 0..2

\* C10: every encoder writes exactly the slots 0 .. returned_length/4 - 1
\* and leaves every other slot of the buffer as it was, so a shorter packet
\* encoded over a longer one leaves the longer one's trailing slots in
\* place; no decoder changes the buffer.
C10_Frame ==
    [][/\ ncalls' # ncalls
          => /\ enc'.written = 0..((enc'.len \div 4) - 1)
             /\ \A s \in Slots :
                    s >= enc'.len \div 4 => packet'[s] = packet[s]
       /\ dec' # dec => packet' = packet]_vars

\* A 1-record batch encoded over a 3-record batch: slots 5..12 still hold
\* the second and third records of the earlier packet.
C10_Witness ==
    /\ ncalls = 2
    /\ BatchEncoded
    /\ enc.p.procs_count = 1
    /\ enc.len = 20
    /\ packet[4] = <<0, 0, 0, 1>>
    /\ packet[5] = <<0, 0, 0, 1>>
    /\ packet[6] = <<255, 255, 255, 254>>
    /\ packet[7] = <<255, 255, 252, 24>>
    /\ packet[8] = <<0, 0, 0, 0>>
    /\ packet[9] = <<127, 255, 255, 255>>
    /\ packet[10] = <<128, 0, 0, 2>>
    /\ packet[11] = <<0, 0, 0, 1>>
    /\ packet[12] = <<0, 0, 0, 2>>

====
